---- MODULE Spec2Model ----
(***************************************************************************)
(* Keyword-triggered notification pipeline of src/main.py:                 *)
(* handle_message, the keyword-rule entry it reads from Redis and the      *)
(* per-recipient Redis lists it appends to.                                *)
(*                                                                         *)
(* A Python str is a sequence of one-character strings.  None, where a str *)
(* is expected, is the one-element sequence Null.  Time is in seconds.     *)
(***************************************************************************)
EXTENDS Integers, Sequences, FiniteSets, TLC

\* ------------------------------------------------------------------ bounds
NumInvocations == 2
MaxRules == 2
MaxTicks == 2

\* ------------------------------------------------------------- Python str
Null == <<"None">>

Truthy(s) == s # Null /\ s # <<>>

\* a or b
Or(a, b) == IF Truthy(a) THEN a ELSE b

LowerChar(c) == IF c = "A" THEN "a" ELSE IF c = "B" THEN "b" ELSE c

\* str.lower()
Lower(s) == [i \in 1..Len(s) |-> LowerChar(s[i])]

\* needle in haystack
In(needle, haystack) ==
    \E i \in 0..(Len(haystack) - Len(needle)) :
        \A j \in 1..Len(needle) : haystack[i + j] = needle[j]

\* len(s.split()): the number of maximal runs of non-whitespace characters
WordCount(s) ==
    Cardinality({i \in 1..Len(s) : s[i] # " " /\ (i = 1 \/ s[i - 1] = " ")})

\* dict.get(key, default)
Get(d, k, default) == IF k \in DOMAIN d THEN d[k] ELSE default

\* ------------------------------------------------------------ the matcher
MessageText(message) == Or(Or(message.text, message.caption), <<>>)

\* the keyword-in-text test of one rule
Candidate(keyword, message) ==
    LET match_pattern == Get(keyword, "match_pattern", "exact")
        target_keyword == Get(keyword, "keyword", <<>>)
        message_text == MessageText(message)
    IN  \/ match_pattern = "exact" /\ In(target_keyword, message_text)
        \/ match_pattern = "fuzzy" /\ In(Lower(target_keyword), Lower(message_text))

UsernameGate(keyword, message) ==
    Get(keyword, "has_username", FALSE) /\ message.username \in {"None", ""}

WordLimitGate(keyword, message) ==
    LET word_limit == Get(keyword, "word_limit", 0)
    IN  word_limit > 0 /\ WordCount(MessageText(message)) < word_limit

\* the loop without the check of is_active
RECURSIVE ScanFromNoActiveCheck(_, _, _, _)
ScanFromNoActiveCheck(keywords, message, i, is_push) ==
    IF i > Len(keywords) THEN 0
    ELSE LET keyword == keywords[i]
             flag == is_push \/ Candidate(keyword, message)
         IN  IF UsernameGate(keyword, message)
             THEN ScanFromNoActiveCheck(keywords, message, i + 1, flag)
             ELSE IF WordLimitGate(keyword, message)
             THEN ScanFromNoActiveCheck(keywords, message, i + 1, flag)
             ELSE IF flag THEN i
             ELSE ScanFromNoActiveCheck(keywords, message, i + 1, flag)

\* the loop with the username check ending the loop instead of the iteration
RECURSIVE ScanFromUsernameBreak(_, _, _, _)
ScanFromUsernameBreak(keywords, message, i, is_push) ==
    IF i > Len(keywords) THEN 0
    ELSE LET keyword == keywords[i]
         IN  IF ~Get(keyword, "is_active", FALSE)
             THEN ScanFromUsernameBreak(keywords, message, i + 1, is_push)
             ELSE LET flag == is_push \/ Candidate(keyword, message)
                  IN  IF UsernameGate(keyword, message)
                      THEN 0
                      ELSE IF WordLimitGate(keyword, message)
                      THEN ScanFromUsernameBreak(keywords, message, i + 1, flag)
                      ELSE IF flag THEN i
                      ELSE ScanFromUsernameBreak(keywords, message, i + 1, flag)

\* The for loop of handle_message from rule i on, entered with the current
\* value of is_push; the index of the rule at which the loop breaks, 0 when
\* the loop runs to its end.
RECURSIVE ScanFrom(_, _, _, _)
ScanFrom(keywords, message, i, is_push) ==
    IF i > Len(keywords) THEN 0
    ELSE LET keyword == keywords[i]
         IN  IF ~Get(keyword, "is_active", FALSE)
             THEN ScanFrom(keywords, message, i + 1, is_push)
             ELSE LET flag == is_push \/ Candidate(keyword, message)
                  IN  IF UsernameGate(keyword, message)
                      THEN ScanFrom(keywords, message, i + 1, flag)
                      ELSE IF WordLimitGate(keyword, message)
                      THEN ScanFrom(keywords, message, i + 1, flag)
                      ELSE IF flag THEN i
                      ELSE ScanFrom(keywords, message, i + 1, flag)

Scan(keywords, message) == ScanFrom(keywords, message, 1, FALSE)

\* ------------------------------------------------------------ the handler
\* the guards without the check of is_bot
PreFilterNoBot(message) ==
    \/ ~message.has_from_user
    \/ message.is_self
    \/ ~Truthy(Or(message.text, message.caption))
    \/ message.chat_type = "private"

\* the guards of lines 56-71: TRUE when the message is dropped
PreFilter(message) ==
    \/ ~message.has_from_user
    \/ message.is_self
    \/ ~Truthy(Or(message.text, message.caption))
    \/ message.chat_type = "private"
    \/ message.is_bot

\* `if not keywords` on the value redis_client.get returns
Falsy(entry) == entry.kind \in {"nil", "empty"}

\* json.loads: the parsed value, or a JSONDecodeError
JsonLoads(entry) ==
    IF entry.kind = "array" THEN [ok |-> TRUE, value |-> entry.rules]
    ELSE [ok |-> FALSE, value |-> <<>>]

\* json.dumps(push_data): the serialised text of the dict
JsonDumps(d) == [json |-> d]

\* the key built from user_id as bound at line 75, to the sender's id
PushKeySender(keyword, message) == message.user_id

\* push_key = f"listener:push:messages:{user_id}", user_id rebound at line 101
PushKey(keyword, message) == Get(keyword, "user_id", 0)

PushData(keyword, message) ==
    [message_id |-> message.id,
     user_name |-> message.username,
     user_id |-> message.user_id,
     text |-> MessageText(message),
     matched_keyword |-> Get(keyword, "keyword", <<>>)]

\* a handler for parse errors only, and one for Redis errors only
HandleExceptionJsonOnly(e) == IF e = "JSONDecodeError" THEN "caught" ELSE "raised"

HandleExceptionRedisOnly(e) == IF e = "RedisError" THEN "caught" ELSE "raised"

\* except Exception as e: logging.error(...), then the coroutine returns
HandleException(e) == "caught"

\* ---------------------------------------------------------------- Redis
EXPIRE_SECONDS == 24 * 60 * 60
TickSeconds == 12 * 60 * 60
NoTTL == -1

\* SET key value in place of RPUSH
RPushSet(list, value) == <<value>>

\* RPUSH key value
RPush(list, value) == Append(list, value)

\* EXPIRE key seconds: the new expiry time of a key whose list is `list`
ExpireKey(list, old, clock) == IF list = <<>> THEN old ELSE clock + EXPIRE_SECONDS

\* ----------------------------------------------------------- input domains
Invocations == 1..NumInvocations

\* recipients (rule owners); every message of the domains is from user 2
Users == {1, 2}

Rule(kw, pat, wl, hu, act, uid) ==
    [keyword |-> kw, match_pattern |-> pat, word_limit |-> wl,
     has_username |-> hu, is_active |-> act, user_id |-> uid]

Keywords == {<<"a">>, <<"A">>}

\* every active rule over the keywords, an inactive rule per keyword, an
\* inactive rule with both gates, and a rule dict without the is_active key
ScanRules ==
    {Rule(kw, pat, wl, hu, TRUE, 1) :
        kw \in Keywords, pat \in {"exact", "fuzzy", "regex"},
        wl \in {0, 2}, hu \in BOOLEAN}
    \cup {Rule(kw, "exact", 0, FALSE, FALSE, 1) : kw \in Keywords}
    \cup {Rule(<<"a">>, "fuzzy", 2, TRUE, FALSE, 1)}
    \cup {[keyword |-> <<"a">>, match_pattern |-> "fuzzy", user_id |-> 1]}

\* rule lists of two owners for the runs with concurrent invocations
FuzzyOfUser1 == Rule(<<"a">>, "fuzzy", 0, FALSE, TRUE, 1)
ExactOfUser2 == Rule(<<"a">>, "exact", 0, TRUE, TRUE, 2)

PipelineRuleLists ==
    {<<>>, <<FuzzyOfUser1>>, <<FuzzyOfUser1, ExactOfUser2>>,
     <<ExactOfUser2, FuzzyOfUser1>>}

SeqsUpTo(S, n) == UNION {[1..k -> S] : k \in 0..n}

Array(rules) == [kind |-> "array", rules |-> rules]

\* values of the Redis entry "listener:keywords": missing, the empty string,
\* text that is not JSON, a JSON array of rule objects
ScanEntries == {Array(rs) : rs \in SeqsUpTo(ScanRules, MaxRules)}

PipelineEntries ==
    {[kind |-> k, rules |-> <<>>] : k \in {"nil", "empty", "invalid"}}
    \cup {Array(rs) : rs \in PipelineRuleLists}

Message(from, self, bot, uname, ctype, txt, cap) ==
    [id |-> 0, has_from_user |-> from, is_self |-> self, is_bot |-> bot,
     username |-> uname, user_id |-> 2, chat_type |-> ctype,
     text |-> txt, caption |-> cap]

Group(uname, txt, cap) == Message(TRUE, FALSE, FALSE, uname, "supergroup", txt, cap)

ScanMessages ==
    {Group(un, txt, Null) :
        un \in {"None", "bob"},
        txt \in {<<"a">>, <<"A", " ", "b">>, <<"b">>}}

PipelineMessages ==
    {Group("bob", <<"a", " ", "b">>, Null),
     Group("", Null, <<"A">>),
     Message(FALSE, FALSE, FALSE, "None", "group", <<"a">>, Null),
     Message(TRUE, TRUE, FALSE, "bob", "group", <<"a">>, Null),
     Message(TRUE, FALSE, TRUE, "bob", "group", <<"a">>, Null),
     Message(TRUE, FALSE, FALSE, "bob", "private", <<"a">>, Null),
     Group("bob", Null, <<>>),
     Group("bob", <<>>, Null)}

NoMessage == Group("None", Null, Null)
NoData == PushData(<<>>, NoMessage)

\* ------------------------------------------------------------------ state
VARIABLES
    keywords_entry, \* the Redis entry "listener:keywords"
    lists,          \* the Redis list "listener:push:messages:<u>" of each user
    expire_at,      \* the time the key of that list expires, NoTTL without one
    now,            \* the clock
    pc,             \* where each invocation of handle_message is
    message,        \* the message it was called with
    matched,        \* the index of the rule at which its loop broke, or 0
    push_key,       \* the user of its push_key
    push_data,      \* its push_data
    outcome,        \* how it ended: "returned", "caught" or "raised"
    reads,          \* how many times it has called redis_client.get
    appends,        \* how many times it has called redis_client.rpush
    pushed_at,      \* when its rpush took effect, -1 before
    pushed_after    \* the invocations whose push was over when its rpush started

vars == <<keywords_entry, lists, expire_at, now, pc, message, matched, push_key,
          push_data, outcome, reads, appends, pushed_at, pushed_after>>

store == <<keywords_entry, lists, expire_at, now>>

InitLocal ==
    /\ lists = [u \in Users |-> <<>>]
    /\ expire_at = [u \in Users |-> NoTTL]
    /\ now = 0
    /\ pc = [p \in Invocations |-> "idle"]
    /\ message = [p \in Invocations |-> NoMessage]
    /\ matched = [p \in Invocations |-> 0]
    /\ push_key = [p \in Invocations |-> 0]
    /\ push_data = [p \in Invocations |-> NoData]
    /\ outcome = [p \in Invocations |-> "none"]
    /\ reads = [p \in Invocations |-> 0]
    /\ appends = [p \in Invocations |-> 0]
    /\ pushed_at = [p \in Invocations |-> -1]
    /\ pushed_after = [p \in Invocations |-> {}]

Init == keywords_entry \in PipelineEntries /\ InitLocal

InitScan == keywords_entry \in ScanEntries /\ InitLocal

\* the invocation ends: it returns, or an exception leaves the try block
Finish(p, how) ==
    /\ pc' = [pc EXCEPT ![p] = "done"]
    /\ outcome' = [outcome EXCEPT ![p] = how]

\* handle_message is called with message m and runs up to the await of
\* rpush: the guards, redis_client.get, json.loads and the loop
Start(p, m) ==
    /\ pc[p] = "idle"
    /\ \A q \in Invocations : q < p => pc[q] # "idle"
    /\ LET msg == [m EXCEPT !.id = p]
       IN  /\ message' = [message EXCEPT ![p] = msg]
           /\ IF PreFilter(msg)
              THEN /\ Finish(p, "returned")
                   /\ UNCHANGED <<matched, push_key, push_data, reads>>
              ELSE /\ reads' = [reads EXCEPT ![p] = @ + 1]
                   /\ \E failed \in BOOLEAN :
                        IF failed
                        THEN /\ Finish(p, HandleException("RedisError"))
                             /\ UNCHANGED <<matched, push_key, push_data>>
                        ELSE IF Falsy(keywords_entry)
                        THEN /\ Finish(p, "returned")
                             /\ UNCHANGED <<matched, push_key, push_data>>
                        ELSE IF ~JsonLoads(keywords_entry).ok
                        THEN /\ Finish(p, HandleException("JSONDecodeError"))
                             /\ UNCHANGED <<matched, push_key, push_data>>
                        ELSE LET keywords == JsonLoads(keywords_entry).value
                                 i == Scan(keywords, msg)
                             IN  IF i = 0
                                 THEN /\ Finish(p, "returned")
                                      /\ UNCHANGED <<matched, push_key, push_data>>
                                 ELSE /\ pc' = [pc EXCEPT ![p] = "rpush"]
                                      /\ matched' = [matched EXCEPT ![p] = i]
                                      /\ push_key' = [push_key EXCEPT
                                             ![p] = PushKey(keywords[i], msg)]
                                      /\ push_data' = [push_data EXCEPT
                                             ![p] = PushData(keywords[i], msg)]
                                      /\ UNCHANGED outcome
    /\ UNCHANGED <<store, appends, pushed_at, pushed_after>>

\* the invocations whose Push has run to its end
Pushed == {q \in Invocations : pc[q] = "done" /\ matched[q] # 0 /\ outcome[q] = "returned"}

\* await redis_client.rpush(push_key, json.dumps(push_data))
Rpush(p) ==
    /\ pc[p] = "rpush"
    /\ appends' = [appends EXCEPT ![p] = @ + 1]
    /\ \E failed \in BOOLEAN :
         IF failed
         THEN /\ Finish(p, HandleException("RedisError"))
              /\ UNCHANGED <<lists, pushed_at, pushed_after>>
         ELSE /\ lists' = [lists EXCEPT
                     ![push_key[p]] = RPush(@, JsonDumps(push_data[p]))]
              /\ pushed_at' = [pushed_at EXCEPT ![p] = now]
              /\ pushed_after' = [pushed_after EXCEPT ![p] = Pushed]
              /\ pc' = [pc EXCEPT ![p] = "expire"]
              /\ UNCHANGED outcome
    /\ UNCHANGED <<keywords_entry, expire_at, now, message, matched, push_key,
                   push_data, reads>>

\* await redis_client.expire(push_key, 24 * 60 * 60), then the break
Expire(p) ==
    /\ pc[p] = "expire"
    /\ \E failed \in BOOLEAN :
         IF failed
         THEN /\ Finish(p, HandleException("RedisError"))
              /\ UNCHANGED expire_at
         ELSE /\ expire_at' = [expire_at EXCEPT
                     ![push_key[p]] = ExpireKey(lists[push_key[p]], @, now)]
              /\ Finish(p, "returned")
    /\ UNCHANGED <<keywords_entry, lists, now, message, matched, push_key,
                   push_data, reads, appends, pushed_at, pushed_after>>

\* a key whose time to live has run out at time t
Expired(u, t) == expire_at[u] # NoTTL /\ expire_at[u] <= t

\* time passes; Redis deletes the keys whose time to live has run out
Tick ==
    /\ now < MaxTicks * TickSeconds
    /\ now' = now + TickSeconds
    /\ lists' = [u \in Users |-> IF Expired(u, now') THEN <<>> ELSE lists[u]]
    /\ expire_at' = [u \in Users |-> IF Expired(u, now') THEN NoTTL ELSE expire_at[u]]
    /\ UNCHANGED <<keywords_entry, pc, message, matched, push_key, push_data,
                   outcome, reads, appends, pushed_at, pushed_after>>

Next ==
    \/ \E p \in Invocations, m \in PipelineMessages : Start(p, m)
    \/ \E p \in Invocations : Rpush(p)
    \/ \E p \in Invocations : Expire(p)
    \/ Tick

Spec == Init /\ [][Next]_vars

\* one invocation over every rule list and message of the matcher's domain
NextScan ==
    \/ \E m \in ScanMessages : Start(1, m)
    \/ Rpush(1)
    \/ Expire(1)

SpecScan == InitScan /\ [][NextScan]_vars

TypeOK ==
    /\ pc \in [Invocations -> {"idle", "rpush", "expire", "done"}]
    /\ outcome \in [Invocations -> {"none", "returned", "caught", "raised"}]
    /\ matched \in [Invocations -> 0..MaxRules]
    /\ push_key \in [Invocations -> Users \cup {0}]

\* ------------------------------------------------- vocabulary of the claims
\* the text or caption of a message, as the documentation describes it
TextOf(m) == IF m.text # Null /\ m.text # <<>> THEN m.text
             ELSE IF m.caption # Null /\ m.caption # <<>> THEN m.caption
             ELSE <<>>

NoUsername(m) == m.username = "None" \/ m.username = ""

\* a message the pre-filter is documented to drop
Dropped(m) ==
    \/ ~m.has_from_user
    \/ m.is_self
    \/ m.is_bot
    \/ m.chat_type = "private"
    \/ TextOf(m) = <<>>

\* the rule's own keyword candidate-matches the message
KeywordMatches(r, m) ==
    \/ r.match_pattern = "exact" /\ In(r.keyword, TextOf(m))
    \/ r.match_pattern = "fuzzy" /\ In(Lower(r.keyword), Lower(TextOf(m)))

IsActive(r) == "is_active" \in DOMAIN r /\ r.is_active

NeedsUsername(r) == "has_username" \in DOMAIN r /\ r.has_username

WordLimit(r) == IF "word_limit" \in DOMAIN r THEN r.word_limit ELSE 0

GatesPass(r, m) ==
    /\ ~(NeedsUsername(r) /\ NoUsername(m))
    /\ ~(WordLimit(r) > 0 /\ WordCount(TextOf(m)) < WordLimit(r))

Qualifies(r, m) == IsActive(r) /\ KeywordMatches(r, m) /\ GatesPass(r, m)

\* the first rule of the list that qualifies, 0 when none does
FirstQualifying(rules, m) ==
    IF \E i \in 1..Len(rules) : Qualifies(rules[i], m)
    THEN CHOOSE i \in 1..Len(rules) :
            /\ Qualifies(rules[i], m)
            /\ \A j \in 1..(i - 1) : ~Qualifies(rules[j], m)
    ELSE 0

Rules == keywords_entry.rules

\* the invocation has read the rule list and run its loop over it
Scanned(p) ==
    /\ pc[p] # "idle"
    /\ ~Dropped(message[p])
    /\ keywords_entry.kind = "array"
    /\ ~(outcome[p] = "caught" /\ appends[p] = 0)

\* the entry the invocation appends
Entry(p) == [json |-> push_data[p]]

Count(list, e) == Cardinality({i \in 1..Len(list) : list[i] = e})

\* ------------------------------------------------------------------ claims
\* C1: the rule at which the loop of handle_message breaks is the first rule,
\* in list order, that is active, whose own keyword matches the text (exact:
\* substring; fuzzy: substring after lower-casing both; otherwise never) and
\* whose username and word-limit gates pass; when no rule is like that, no
\* rule is selected and nothing is appended.
C1_FirstQualifyingRule ==
    \A p \in Invocations :
        Scanned(p) =>
            /\ matched[p] = FirstQualifying(Rules, message[p])
            /\ (FirstQualifying(Rules, message[p]) = 0 => appends[p] = 0)

\* C2: a message with no sender, from the listener itself, from a bot, in a
\* private chat or without text and caption makes handle_message return at
\* once: it reads no rule entry, appends to no list, and the rule entry, the
\* lists and their expiry times are as before.
C2_DroppedTouchesNothing ==
    /\ [](\A p \in Invocations :
            pc[p] # "idle" /\ Dropped(message[p]) =>
                /\ pc[p] = "done" /\ outcome[p] = "returned"
                /\ reads[p] = 0 /\ appends[p] = 0 /\ pushed_at[p] = -1)
    /\ [][\A p \in Invocations :
            pc[p] = "idle" /\ pc'[p] # "idle" /\ Dropped(message'[p]) =>
                UNCHANGED <<keywords_entry, lists, expire_at>>]_vars

C2_Witness ==
    \E p \in Invocations :
        /\ pc[p] = "done" /\ message[p].is_bot /\ reads[p] = 0
        /\ keywords_entry.kind = "array"
        /\ \E i \in 1..Len(Rules) : KeywordMatches(Rules[i], message[p])

\* C3: handle_message never raises and never retries: an invocation that has
\* ended has returned or has had its exception caught, it has called get at
\* most once and rpush at most once, and an invocation waiting on rpush or
\* expire can always take its next step.
C3_NeverRaisesNeverRetries ==
    \A p \in Invocations :
        /\ outcome[p] # "raised"
        /\ reads[p] <= 1 /\ appends[p] <= 1
        /\ (pc[p] = "done" <=> outcome[p] \in {"returned", "caught"})
        /\ (pc[p] = "rpush" => ENABLED Rpush(p))
        /\ (pc[p] = "expire" => ENABLED Expire(p))

C3_Witness ==
    \E p, q \in Invocations :
        /\ pc[p] = "done" /\ outcome[p] = "caught" /\ reads[p] = 1 /\ appends[p] = 1
        /\ pc[q] = "done" /\ outcome[q] = "caught" /\ reads[q] = 1 /\ appends[q] = 0

\* the step in which the rpush of invocation p takes effect
RpushDone(p) == pc[p] = "rpush" /\ pc'[p] = "expire"

\* C4: an invocation whose loop breaks at a rule appends to the list of that
\* rule's owner and to no other list, once; the entry carries that rule's
\* keyword as matched_keyword and the sender's id as user_id.  (When rpush
\* fails nothing is appended; a run without failure has appended once.)
C4_PushGoesToOwner ==
    /\ [](\A p \in Invocations :
            matched[p] # 0 =>
                /\ push_key[p] = Rules[matched[p]].user_id
                /\ push_data[p].matched_keyword = Rules[matched[p]].keyword
                /\ push_data[p].user_id = message[p].user_id
                /\ push_data[p].message_id = message[p].id
                /\ appends[p] <= 1
                /\ (pc[p] = "done" /\ outcome[p] = "returned" => appends[p] = 1))
    /\ [][\A p \in Invocations :
            /\ RpushDone(p) =>
                 lists' = [lists EXCEPT
                     ![Rules[matched[p]].user_id] = Append(@, Entry(p))]
            /\ pc'[p] # pc[p] /\ ~RpushDone(p) => lists' = lists]_vars

\* the first rule is owned by user 1, a later rule of user 2 qualifies too,
\* the sender is user 2, and the entry is in the list of user 1 alone
C4_Witness ==
    \E p \in Invocations :
        /\ pc[p] = "done" /\ outcome[p] = "returned" /\ matched[p] = 1
        /\ Len(Rules) = 2 /\ Rules[1].user_id = 1 /\ Rules[2].user_id = 2
        /\ Qualifies(Rules[2], message[p])
        /\ message[p].user_id = 2
        /\ lists[1] = <<Entry(p)>> /\ lists[2] = <<>>

\* a occurs before b in the list
InOrder(list, a, b) ==
    \E i, j \in 1..Len(list) : i < j /\ list[i] = a /\ list[j] = b

\* C5: when a push to a recipient completes, and an earlier push to the same
\* recipient had completed before this one started, the two less than 24
\* hours apart, the list holds both entries, the earlier one first, and the
\* key expires 24 hours from now.
C5_BothKeptTtlFromLast ==
    [][\A q \in Invocations :
        pc[q] = "expire" /\ pc'[q] = "done" /\ outcome'[q] = "returned" =>
            \A p \in pushed_after[q] :
                /\ push_key[p] = push_key[q]
                /\ pushed_at[q] - pushed_at[p] < EXPIRE_SECONDS
                => /\ InOrder(lists'[push_key[q]], Entry(p), Entry(q))
                   /\ expire_at'[push_key[q]] = now + EXPIRE_SECONDS]_vars

\* C6: under every interleaving, an rpush that takes effect adds its whole
\* entry at the tail of its own recipient's list and changes nothing else;
\* no step of any invocation removes or reorders an entry (a list only goes
\* when its key expires); every entry of a list is the entry of an
\* invocation that appended to that list, and occurs in it once and in no
\* other list.
C6_ConcurrentPushesKeepEntries ==
    /\ [](\A u \in Users :
            \A i \in 1..Len(lists[u]) :
                \E p \in Invocations :
                    /\ lists[u][i] = Entry(p)
                    /\ push_key[p] = u /\ pushed_at[p] # -1
                    /\ Count(lists[u], Entry(p)) = 1
                    /\ \A v \in Users \ {u} : Count(lists[v], Entry(p)) = 0)
    /\ [][\A p \in Invocations :
            RpushDone(p) =>
                lists' = [lists EXCEPT ![push_key[p]] = Append(@, Entry(p))]]_vars
    /\ [][now' = now =>
            \A u \in Users :
                /\ Len(lists'[u]) >= Len(lists[u])
                /\ SubSeq(lists'[u], 1, Len(lists[u])) = lists[u]]_vars

\* two invocations between their rpush and their expire, on the same key
C6_Witness ==
    \E p, q \in Invocations :
        /\ p # q /\ pc[p] = "expire" /\ pc[q] = "expire"
        /\ push_key[p] = push_key[q]
        /\ lists[push_key[p]] = <<Entry(q), Entry(p)>>

\* C7: a key that holds an entry has a time to live, and an entry is in its
\* list for 24 hours from its rpush.
C7_AppendAndExpireAtomic ==
    /\ \A u \in Users : lists[u] # <<>> => expire_at[u] # NoTTL
    /\ \A p \in Invocations :
         pushed_at[p] # -1 /\ now < pushed_at[p] + EXPIRE_SECONDS =>
             Count(lists[push_key[p]], Entry(p)) = 1

\* C8: with the rule entry missing, empty or not parsable, no invocation
\* selects a rule or appends anything, whatever its message, and none raises.
C8_NoRulesNoPush ==
    keywords_entry.kind \in {"nil", "empty", "invalid"} \/ Rules = <<>> =>
        /\ \A p \in Invocations :
             /\ matched[p] = 0 /\ appends[p] = 0
             /\ pc[p] \in {"idle", "done"}
             /\ outcome[p] # "raised"
             /\ (pc[p] = "done" => outcome[p] \in {"returned", "caught"})
        /\ \A u \in Users : lists[u] = <<>>

C8_Witness ==
    /\ keywords_entry.kind = "invalid"
    /\ \E p \in Invocations :
         /\ pc[p] = "done" /\ outcome[p] = "caught" /\ reads[p] = 1
         /\ TextOf(message[p]) = <<"a", " ", "b">>
    /\ \A p \in Invocations : pc[p] = "done"

\* the rule is skipped for the message by its word limit
BelowWordLimit(r, m) == WordLimit(r) > 0 /\ WordCount(TextOf(m)) < WordLimit(r)

\* C9: a rule with a word limit above the message's word count is never the
\* selected rule; and when such a rule is the only rule of the list whose
\* keyword matches the message, no rule is selected and nothing is appended.
C9_WordLimitSkips ==
    \A p \in Invocations :
        Scanned(p) =>
            /\ (matched[p] # 0 => ~BelowWordLimit(Rules[matched[p]], message[p]))
            /\ \A i \in 1..Len(Rules) :
                 /\ BelowWordLimit(Rules[i], message[p])
                 /\ KeywordMatches(Rules[i], message[p])
                 /\ \A j \in 1..Len(Rules) :
                      j # i => ~KeywordMatches(Rules[j], message[p])
                 => matched[p] = 0 /\ appends[p] = 0

\* C10: a rule that requires a username is never the selected rule for a
\* sender without one; and it does not end the scan: when a rule after it
\* qualifies on its own, a rule is selected, that one or one before it.
C10_UsernameGateSkips ==
    \A p \in Invocations :
        Scanned(p) =>
            /\ (matched[p] # 0 =>
                  ~(NeedsUsername(Rules[matched[p]]) /\ NoUsername(message[p])))
            /\ \A i, j \in 1..Len(Rules) :
                 /\ i < j
                 /\ IsActive(Rules[i]) /\ NeedsUsername(Rules[i])
                 /\ NoUsername(message[p])
                 /\ Qualifies(Rules[j], message[p])
                 => matched[p] # 0 /\ matched[p] <= j

\* the first rule has its keyword in the text and is skipped for the missing
\* username; the second rule is selected
C10_Witness ==
    \E p \in Invocations :
        /\ Scanned(p) /\ NoUsername(message[p])
        /\ Len(Rules) = 2
        /\ IsActive(Rules[1]) /\ NeedsUsername(Rules[1])
        /\ KeywordMatches(Rules[1], message[p])
        /\ Qualifies(Rules[2], message[p])
        /\ matched[p] = 2

\* the list with its inactive rules removed
ActiveOnly(rules) == SelectSeq(rules, IsActive)

\* the position in ActiveOnly(rules) of the active rule at position i, 0 for 0
ActiveRank(rules, i) == Cardinality({j \in 1..i : IsActive(rules[j])})

\* C11: a rule whose is_active is false or missing is never the selected
\* rule, and the outcome for a list is the outcome for the list with its
\* inactive rules removed: the same rule is selected, or none in both.
C11_InactiveRulesHaveNoEffect ==
    \A p \in Invocations :
        Scanned(p) =>
            /\ (matched[p] # 0 => IsActive(Rules[matched[p]]))
            /\ Scan(ActiveOnly(Rules), message[p]) = ActiveRank(Rules, matched[p])
            /\ (matched[p] # 0 =>
                  ActiveOnly(Rules)[ActiveRank(Rules, matched[p])] = Rules[matched[p]])

\* the first rule is inactive with its keyword in the text, and the second
\* rule is selected
C11_Witness ==
    \E p \in Invocations :
        /\ Scanned(p) /\ Len(Rules) = 2
        /\ ~IsActive(Rules[1]) /\ KeywordMatches(Rules[1], message[p])
        /\ matched[p] = 2

====
